---------------------------- MODULE Spec2Model ----------------------------
(***************************************************************************)
(* Model of fashion_local_regression.py: a linear script that generates a  *)
(* seeded synthetic sample, smooths it with LOWESS and plots both.         *)
(*                                                                         *)
(* Numbers.  x values are integers in a fixed unit: linspace(0, 24, 100)   *)
(* is kept scaled by num - 1 = 99, so x_i = 24 * i (in units of 1/99).     *)
(* frac is a rational [num, den] with den > 0.  A y value of the generated *)
(* sample is the record [at, noise]: 10 + 2 sin(2 pi at / 12) + noise.     *)
(*                                                                         *)
(* The routine lowess called at line 36 is statsmodels' (defaults it = 3,  *)
(* delta = 0, is_sorted = False, missing = 'drop', return_sorted = True).  *)
(* Its control flow is modelled step by step (argument check, sort,        *)
(* neighbour count, sliding neighbourhood, tri-cube support, regression or *)
(* fallback, copy of the fit to tied x).  A fitted value is tracked        *)
(* exactly where the routine returns the input y (regression skipped, or   *)
(* a line through two points one of which is the evaluation point) and is  *)
(* otherwise the untracked term [kind |-> "fit"] (or "nan" after a 0/0).   *)
(* The robustness passes find the same neighbourhoods with reweighted      *)
(* points: a row that returned y has residual 0 and keeps weight 1, so it  *)
(* returns y again.                                                        *)
(***************************************************************************)
EXTENDS Integers, Sequences, FiniteSets, TLC

VARIABLES pc, stdout, rng, sample, frac, smoothed, fits, chart, trace, returned

vars == <<pc, stdout, rng, sample, frac, smoothed, fits, chart, trace, returned>>

(***************************************************************************)
(* Bounds of the model.                                                    *)
(***************************************************************************)
RngMod == 64      \* number of states of the process-wide generator
MaxN == 3         \* longest sample handed to perform_lowess directly
MaxX == 2         \* x values of those samples are 0..MaxX
MaxY == 1         \* y values of those samples are 0..MaxY
MaxDen == 4       \* frac = num/den with den in 1..MaxDen
MaxSteps == 3     \* draws and calls of generate_data followed in one run

(***************************************************************************)
(* Program constants.                                                      *)
(***************************************************************************)
SeedValue == 42
NumPoints == 100
XStop == 24
MainFracNum == 1      \* frac=0.2 = 1/5
MainFracDen == 5
Iterations == 3       \* lowess default it=3

Max(a, b) == IF a >= b THEN a ELSE b
Abs(a) == IF a >= 0 THEN a ELSE -a

None == [kind |-> "none"]

(***************************************************************************)
(* The process-wide generator (np.random): a deterministic function of its *)
(* state.  seed sets the state, each draw advances it and returns a value  *)
(* determined by it.                                                       *)
(***************************************************************************)
RngStates == 0..(RngMod - 1)

seed(s) == s % RngMod

\* The generator's state after `draws` draws from state r.
rng_skip(r, draws) == (r + 7 * draws) % RngMod

\* A sequence given as a function on 1..n, as a sequence proper.
AsSeq(f) == SubSeq(f, 1, Len(f))

\* np.random.normal(scale=1, size=size): one draw per element, each value
\* determined by the generator's state after the draw.
normal(r, size) ==
    [draws |-> AsSeq([i \in 1..size |-> rng_skip(r, i)]), rng |-> rng_skip(r, size)]

\* A linspace that stops one point short.
linspace_short(start, stop, num) ==
    AsSeq([i \in 1..(num - 1) |-> start * (num - 1) + (i - 1) * (stop - start)])

\* np.linspace(start, stop, num), scaled by num - 1.
linspace(start, stop, num) ==
    AsSeq([i \in 1..num |-> start * (num - 1) + (i - 1) * (stop - start)])

\* generate_data without line 18: the generator is left as the caller found it.
generate_data_unseeded(r) ==
    LET x == linspace(0, XStop, NumPoints)
        nz == normal(r, Len(x))
        y == AsSeq([i \in 1..Len(x) |-> [at |-> x[i], noise |-> nz.draws[i]]])
    IN [x |-> x, y |-> y, rng |-> nz.rng]

\* generate_data(), called with the generator in state r.
generate_data(r) ==
    LET r0 == seed(SeedValue)
        x == linspace(0, XStop, NumPoints)
        nz == normal(r0, Len(x))
        y == AsSeq([i \in 1..Len(x) |-> [at |-> x[i], noise |-> nz.draws[i]]])
    IN [x |-> x, y |-> y, rng |-> nz.rng]


(***************************************************************************)
(* lowess(endog, exog, frac): the smoother called by perform_lowess.       *)
(***************************************************************************)
ValueError == [kind |-> "error", exc |-> "ValueError"]

\* frac as an argument check that also rejects frac = 1.
FracOkBelowOne(f) == 0 <= f.num /\ f.num < f.den

\* frac as an argument check with no upper limit.
FracOkNoUpper(f) == 0 <= f.num

\* "if not 0 <= frac <= 1: raise ValueError"
FracOk(f) == 0 <= f.num /\ f.num <= f.den

\* The neighbour count rounded up: ceil(frac * n).
int_frac_n_ceil(f, n) == (f.num * n + f.den - 1) \div f.den

\* k = int(frac * n + 1e-10): frac * n rounded down (the 1e-10 absorbs the
\* floating-point error of a product that is an integer).
int_frac_n(f, n) == (f.num * n) \div f.den

\* The conforming step with a lower limit of 1 instead of 2.
conform_k_min_one(k, n) ==
    LET k1 == IF k < 1 THEN 1 ELSE k
    IN IF k1 > n THEN n ELSE k1

\* The conforming step with the upper limit off by one.
conform_k_below_n(k, n) ==
    LET k1 == IF k < 2 THEN 2 ELSE k
    IN IF k1 >= n THEN Max(1, n - 1) ELSE k1

\* "if k < 2: k = 2" then "if k > n: k = n": conformed, no error raised.
conform_k(k, n) ==
    LET k1 == IF k < 2 THEN 2 ELSE k
    IN IF k1 > n THEN n ELSE k1

\* The input order kept: no sort.
argsort_identity(x) == AsSeq([p \in 1..Len(x) |-> p])

\* np.argsort(x): the indices of x in ascending order of value (ties in
\* input order, as for the short arrays numpy sorts by insertion).
argsort(x) ==
    LET n == Len(x)
        rank == AsSeq([i \in 1..n |->
                    Cardinality({j \in 1..n : x[j] < x[i] \/ (x[j] = x[i] /\ j < i)}) + 1])
    IN AsSeq([p \in 1..n |-> CHOOSE i \in 1..n : rank[i] = p])

\* update_neighborhood: slide [left_end, right_end) rightwards while the
\* first point right of it is nearer to xval than its leftmost point.
\* Indices are 0-based as in the routine; x is the sorted sequence.
RECURSIVE update_neighborhood(_, _, _, _, _)
update_neighborhood(x, xval, n, left_end, right_end) ==
    IF right_end < n /\ 2 * xval > x[left_end + 1] + x[right_end + 1]
    THEN update_neighborhood(x, xval, n, left_end + 1, right_end + 1)
    ELSE [left_end |-> left_end, right_end |-> right_end,
          radius |-> Max(xval - x[left_end + 1], x[right_end] - xval)]

\* calculate_weights: the points of the neighbourhood whose tri-cube weight
\* (1 - (|x_j - xval| / radius)^3)^3 is positive.
support(x, xval, nb) ==
    {j \in nb.left_end..(nb.right_end - 1) : Abs(x[j + 1] - xval) < nb.radius}

\* calculate_weights' reg_ok: the weights sum to more than 0 and more than
\* one of them is non-zero.
reg_ok(x, xval, nb) == Cardinality(support(x, xval, nb)) >= 2

\* calculate_y_fit at sorted index i (0-based).  resid_weights is "ones"
\* (the initial pass, or every residual was 0), "reweighted" (bisquare
\* weights of non-zero residuals) or "nan" (a residual was 0/0).
calculate_y_fit(x, y, i, nb, resid_weights) ==
    LET xval == x[i + 1]
        S == support(x, xval, nb)
    IN IF resid_weights = "nan" \/ nb.radius = 0
       THEN [kind |-> "nan"]                        \* distances are 0/0
       ELSE IF ~reg_ok(x, xval, nb) THEN [kind |-> "y", val |-> y[i + 1]]
       ELSE IF \A j \in S : x[j + 1] = xval
       THEN [kind |-> "nan"]                        \* no spread in x: 0/0
       ELSE IF Cardinality(S) = 2 THEN [kind |-> "y", val |-> y[i + 1]]
       ELSE [kind |-> "fit", left_end |-> nb.left_end, right_end |-> nb.right_end]

\* One turn of the fitting loop, at sorted index i (0-based): a regression
\* at x[i], or, for an x equal to the one before (delta = 0), the copy of
\* that point's fit.  prev is the turn before: its fit and neighbourhood.
fit_point(x, y, n, i, prev, resid_weights) ==
    IF i > 0 /\ x[i + 1] = x[i] THEN prev
    ELSE LET nb == update_neighborhood(x, x[i + 1], n, prev.left_end, prev.right_end)
         IN [left_end |-> nb.left_end, right_end |-> nb.right_end,
             radius |-> nb.radius,
             yhat |-> calculate_y_fit(x, y, i, nb, resid_weights)]

\* The turns lo..hi-1 of the fitting loop in order, each starting from the
\* neighbourhood the one before left (the range is halved only to keep the
\* evaluation shallow).
RECURSIVE fit_range(_, _, _, _, _, _, _)
fit_range(x, y, n, lo, hi, prev, resid_weights) ==
    IF hi <= lo THEN <<>>
    ELSE IF hi = lo + 1 THEN <<fit_point(x, y, n, lo, prev, resid_weights)>>
    ELSE LET mid == (lo + hi) \div 2
             first == fit_range(x, y, n, lo, mid, prev, resid_weights)
         IN first \o fit_range(x, y, n, mid, hi, first[Len(first)], resid_weights)

\* calculate_residual_weights: bisquare of |y - y_fit| / (6 median).
calculate_residual_weights(fitted) ==
    IF \E p \in 1..Len(fitted) : fitted[p].yhat.kind = "nan" THEN "nan"
    ELSE IF \A p \in 1..Len(fitted) : fitted[p].yhat.kind = "y" THEN "ones"
    ELSE "reweighted"

\* The initial pass and the it robustness passes.  Every pass starts from
\* left_end = 0, right_end = k.  A pass is determined by the residual
\* weights it is given: once a pass hands on the weights it was given, the
\* passes that remain repeat it.
RECURSIVE robust_passes(_, _, _, _, _, _)
robust_passes(x, y, n, k, it, resid_weights) ==
    LET start == [left_end |-> 0, right_end |-> k]
        fitted == fit_range(x, y, n, 0, n, start, resid_weights)
        next_weights == calculate_residual_weights(fitted)
    IN IF it = 0 \/ next_weights = resid_weights THEN fitted
       ELSE robust_passes(x, y, n, k, it - 1, next_weights)

lowess(endog, exog, f) ==
    IF Len(endog) # Len(exog) THEN ValueError
    ELSE IF ~FracOk(f) THEN ValueError
    ELSE LET sort_index == argsort(exog)
             n == Len(exog)
             x == AsSeq([p \in 1..n |-> exog[sort_index[p]]])
             y == AsSeq([p \in 1..n |-> endog[sort_index[p]]])
             k == conform_k(int_frac_n(f, n), n)
             fitted == robust_passes(x, y, n, k, Iterations, "ones")
         IN [kind |-> "curve",
             rows |-> AsSeq([p \in 1..n |-> <<x[p], fitted[p].yhat>>]),
             fits |-> AsSeq([p \in 1..n |-> [left_end |-> fitted[p].left_end,
                                             right_end |-> fitted[p].right_end,
                                             radius |-> fitted[p].radius]])]

perform_lowess(x, y, f) == lowess(y, x, f)

\* What perform_lowess returns to its caller (the neighbourhoods are internal).
Returned(res) ==
    IF res.kind = "curve" THEN [kind |-> "curve", rows |-> res.rows] ELSE res

Neighbourhoods(res) == IF res.kind = "curve" THEN res.fits ELSE <<>>


(***************************************************************************)
(* main(): the statements of its body in order, pc the one to run next.    *)
(***************************************************************************)
MainFrac == [num |-> MainFracNum, den |-> MainFracDen]

Narration ==
    <<"\nExplanation:",
      "The blue points represent the original synthetic fashion trend data (with noise and seasonal effects).",
      "The red line is the LOWESS smoothed curve, which reveals the underlying trend by smoothing the data,",
      "making it easier to interpret the overall trend and patterns in fashion over time.">>

\* A body that starts over after plotting.
main_next_looping(stmt) ==
    CASE stmt = "print" -> "generate_data"
      [] stmt = "generate_data" -> "perform_lowess"
      [] stmt = "perform_lowess" -> "plot_results"
      [] stmt = "plot_results" -> "print"
      [] OTHER -> "return"

\* The statement that follows stmt in main's body.
main_next(stmt) ==
    CASE stmt = "print" -> "generate_data"
      [] stmt = "generate_data" -> "perform_lowess"
      [] stmt = "perform_lowess" -> "plot_results"
      [] stmt = "plot_results" -> "return"
      [] OTHER -> "return"

AsSample(g) == [kind |-> "sample", x |-> g.x, y |-> g.y]

\* Lines 52-55.
Narrate ==
    /\ pc = "print"
    /\ stdout' = stdout \o Narration
    /\ trace' = Append(trace, "print")
    /\ pc' = main_next("print")
    /\ UNCHANGED <<rng, sample, frac, smoothed, fits, chart, returned>>

\* Line 56.
GenerateData ==
    /\ pc = "generate_data"
    /\ LET g == generate_data(rng)
       IN /\ sample' = AsSample(g)
          /\ rng' = g.rng
          /\ returned' = returned \cup {AsSample(g)}
    /\ trace' = Append(trace, "generate_data")
    /\ pc' = main_next("generate_data")
    /\ UNCHANGED <<stdout, frac, smoothed, fits, chart>>

\* Line 57.  An exception of the smoother is not caught: main ends there.
PerformLowess ==
    /\ pc = "perform_lowess"
    /\ LET res == perform_lowess(sample.x, sample.y, MainFrac)
       IN /\ frac' = MainFrac
          /\ smoothed' = Returned(res)
          /\ fits' = Neighbourhoods(res)
          /\ pc' = IF res.kind = "error" THEN "raised" ELSE main_next("perform_lowess")
    /\ trace' = Append(trace, "perform_lowess")
    /\ UNCHANGED <<stdout, rng, sample, chart, returned>>

\* plot_results(x, y, smoothed), lines 39-49, called at line 58.
plot_results(x, y, sm) ==
    [kind |-> "figure",
     scatter |-> [x |-> x, y |-> y, label |-> "Original Data"],
     line |-> [rows |-> sm.rows, label |-> "Lowess Smoothed"],
     xlabel |-> "Month", ylabel |-> "Fashion Trend Indicator",
     title |-> "Local Regression (LOWESS) on Fashion Trend Data",
     legend |-> TRUE, grid |-> TRUE, shown |-> TRUE]

PlotResults ==
    /\ pc = "plot_results"
    /\ chart' = plot_results(sample.x, sample.y, smoothed)
    /\ trace' = Append(trace, "plot_results")
    /\ pc' = main_next("plot_results")
    /\ UNCHANGED <<stdout, rng, sample, frac, smoothed, fits, returned>>

\* The generator is seeded from the system's entropy when numpy is imported.
Init ==
    /\ pc = "print"
    /\ stdout = <<>>
    /\ rng \in RngStates
    /\ sample = None
    /\ frac = None
    /\ smoothed = None
    /\ fits = <<>>
    /\ chart = None
    /\ trace = <<>>
    /\ returned = {}

Next == Narrate \/ GenerateData \/ PerformLowess \/ PlotResults

Spec == Init /\ [][Next]_vars

(***************************************************************************)
(* generate_data called any number of times, other code drawing from the   *)
(* process-wide generator in between.                                      *)
(***************************************************************************)
OtherDraw ==
    /\ pc = "idle"
    /\ Len(trace) < MaxSteps
    /\ rng' = normal(rng, 1).rng
    /\ trace' = Append(trace, "draw")
    /\ UNCHANGED <<pc, stdout, sample, frac, smoothed, fits, chart, returned>>

GenerateDataCall ==
    /\ pc = "idle"
    /\ Len(trace) < MaxSteps
    /\ LET g == generate_data(rng)
       IN /\ sample' = AsSample(g)
          /\ rng' = g.rng
          /\ returned' = returned \cup {AsSample(g)}
    /\ trace' = Append(trace, "generate_data")
    /\ UNCHANGED <<pc, stdout, frac, smoothed, fits, chart>>

InitGen ==
    /\ pc = "idle"
    /\ stdout = <<>>
    /\ rng \in RngStates
    /\ sample = None
    /\ frac = None
    /\ smoothed = None
    /\ fits = <<>>
    /\ chart = None
    /\ trace = <<>>
    /\ returned = {}

NextGen == OtherDraw \/ GenerateDataCall

SpecGen == InitGen /\ [][NextGen]_vars

(***************************************************************************)
(* perform_lowess called on any sample of the bounds, in any order of x    *)
(* and with repeated x, or on main's sample, with any frac of the bounds   *)
(* or main's.                                                              *)
(***************************************************************************)
Samples ==
    UNION {{[kind |-> "sample", x |-> xs, y |-> ys] :
                xs \in [1..n -> 0..MaxX], ys \in [1..n -> 0..MaxY]} : n \in 1..MaxN}

Fracs ==
    UNION {{[num |-> p, den |-> q] : p \in (-1)..(q + 1)} : q \in 1..MaxDen}
       \cup {MainFrac}

PerformLowessCall ==
    /\ pc = "call"
    /\ \E f \in Fracs :
          LET res == perform_lowess(sample.x, sample.y, f)
          IN /\ frac' = f
             /\ smoothed' = Returned(res)
             /\ fits' = Neighbourhoods(res)
    /\ pc' = "returned"
    /\ UNCHANGED <<stdout, rng, sample, chart, trace, returned>>

InitLowess ==
    /\ pc = "call"
    /\ stdout = <<>>
    /\ rng = seed(SeedValue)
    /\ sample \in Samples \cup {AsSample(generate_data(seed(SeedValue)))}
    /\ frac = None
    /\ smoothed = None
    /\ fits = <<>>
    /\ chart = None
    /\ trace = <<>>
    /\ returned = {}

NextLowess == PerformLowessCall

SpecLowess == InitLowess /\ [][NextLowess]_vars


(***************************************************************************)
(* Properties.                                                             *)
(***************************************************************************)
DistinctX(x) == \A i, j \in 1..Len(x) : i # j => x[i] # x[j]

FracInUnit == frac.num > 0 /\ frac.num <= frac.den        \* frac in (0, 1]

NPoints == Len(sample.x)

WindowSize(p) == fits[p].right_end - fits[p].left_end

\* C1: for a sample of N points with no repeated x and a frac in (0,1],
\* perform_lowess returns a curve of exactly N rows of two columns, the
\* first column holding the sample's x values.
C1_CurveLengthEqualsSampleLength ==
    (pc = "returned" /\ DistinctX(sample.x) /\ FracInUnit) =>
        /\ smoothed.kind = "curve"
        /\ Len(smoothed.rows) = NPoints
        /\ \A p \in 1..Len(smoothed.rows) : Len(smoothed.rows[p]) = 2
        /\ {smoothed.rows[p][1] : p \in 1..Len(smoothed.rows)}
              = {sample.x[i] : i \in 1..NPoints}

C1_Witness ==
    /\ pc = "returned" /\ DistinctX(sample.x) /\ FracInUnit
    /\ NPoints = 3
    /\ frac.num < frac.den
    /\ smoothed.kind = "curve" /\ Len(smoothed.rows) = 3

C3_SmallNeighbourhoodIsError ==
    (pc = "returned" /\ NPoints >= 2 /\ DistinctX(sample.x)
        /\ FracInUnit /\ frac.num * NPoints < 2 * frac.den) =>
        smoothed.kind = "error"

\* C3 as amended: a frac in (0,1] with frac * N < 2 raises no error; the
\* neighbourhood size is conformed to 2 (to N for a sample of one point)
\* and a curve of N rows is returned.
C3_SmallNeighbourhoodIsConformed ==
    (pc = "returned" /\ FracInUnit /\ frac.num * NPoints < 2 * frac.den) =>
        /\ smoothed.kind = "curve"
        /\ Len(smoothed.rows) = NPoints
        /\ \A p \in 1..Len(fits) :
              WindowSize(p) = (IF NPoints < 2 THEN NPoints ELSE 2)

C3_Witness ==
    /\ pc = "returned" /\ FracInUnit /\ frac.num * NPoints < 2 * frac.den
    /\ NPoints = 3
    /\ smoothed.kind = "curve"
    /\ \A p \in 1..3 : WindowSize(p) = 2

\* C5: every call of generate_data returns the same sample, whatever the
\* state of the process-wide generator when it is called: the one sample a
\* call returns from any generator state.
C5_GenerateDataDeterministic ==
    /\ Cardinality(returned) <= 1
    /\ \A s \in returned : \A r \in RngStates : s = AsSample(generate_data(r))

C5_Witness ==
    /\ trace = <<"generate_data", "draw", "generate_data">>
    /\ returned = {sample}

\* C6: a sample returned by generate_data has 100 points, x strictly
\* increasing and evenly spaced from 0 to 24 (x is in units of 1/99), and
\* as many y as x.
C6_SampleShape ==
    \A s \in returned :
        /\ Len(s.x) = 100
        /\ Len(s.y) = Len(s.x)
        /\ s.x[1] = 0
        /\ s.x[Len(s.x)] = 24 * 99
        /\ \A i \in 1..(Len(s.x) - 1) :
              s.x[i] < s.x[i + 1] /\ s.x[i + 1] - s.x[i] = s.x[2] - s.x[1]
        /\ \A i \in 1..Len(s.x) : 0 <= s.x[i] /\ s.x[i] <= 24 * 99

C6_Witness == returned # {} /\ sample \in returned /\ Len(sample.x) = 100

MainSteps == <<"print", "generate_data", "perform_lowess", "plot_results">>

\* C7: main runs its steps once each and in order (narration, generator,
\* smoother on the generator's output, presenter); the narration is out
\* before anything is rendered and nothing follows the rendering.
C7_StepsInOrderOnce ==
    /\ Len(trace) <= 4
    /\ trace = SubSeq(MainSteps, 1, Len(trace))
    /\ stdout = (IF Len(trace) = 0 THEN <<>> ELSE Narration)
    /\ Len(trace) >= 2 => sample \in returned
    /\ Len(trace) >= 3 =>
          smoothed = Returned(perform_lowess(sample.x, sample.y, MainFrac))
    /\ chart # None =>
          /\ trace = MainSteps
          /\ stdout = Narration
          /\ chart.line.rows = smoothed.rows
          /\ chart.scatter.x = sample.x /\ chart.scatter.y = sample.y
          /\ ~ENABLED Next

C7_Witness ==
    /\ pc = "return"
    /\ trace = MainSteps
    /\ chart # None /\ chart.shown

Ascending(rows) ==
    \A p \in 1..(Len(rows) - 1) : rows[p][1] <= rows[p + 1][1]

\* C8 as stated: the rows are in ascending order of x and there is one row
\* per distinct x of the input (checked for frac in (0,1]).
C8_AscendingAndDeduplicated ==
    (pc = "returned" /\ smoothed.kind = "curve" /\ FracInUnit
        /\ Cardinality({sample.x[i] : i \in 1..NPoints}) >= 2) =>
        /\ Ascending(smoothed.rows)
        /\ Len(smoothed.rows) = Cardinality({sample.x[i] : i \in 1..NPoints})

\* C8 as amended: whatever the order of the input, the rows are in ascending
\* order of x; repeated x are not deduplicated: there is one row per input
\* point, each x as often as in the input.
C8_AscendingOneRowPerPoint ==
    (pc = "returned" /\ smoothed.kind = "curve") =>
        /\ Ascending(smoothed.rows)
        /\ Len(smoothed.rows) = NPoints
        /\ \A v \in {sample.x[i] : i \in 1..NPoints} :
              Cardinality({p \in 1..Len(smoothed.rows) : smoothed.rows[p][1] = v})
                 = Cardinality({i \in 1..NPoints : sample.x[i] = v})

C8_Witness ==
    /\ pc = "returned" /\ smoothed.kind = "curve"
    /\ NPoints = 3
    /\ sample.x[1] > sample.x[2] /\ sample.x[1] = sample.x[3]
    /\ Len(smoothed.rows) = 3 /\ Ascending(smoothed.rows)

\* The rows whose smoothed value the model tracks lie on one straight line.
OnOneLine(rows) ==
    \A p, q, r \in {i \in 1..Len(rows) : rows[i][2].kind = "y"} :
        (rows[q][1] - rows[p][1]) * (rows[r][2].val - rows[p][2].val)
           = (rows[r][1] - rows[p][1]) * (rows[q][2].val - rows[p][2].val)

\* C9 as stated: with frac = 1.0 the smoothed values all lie on one
\* straight line (the global least-squares line).
C9_FracOneIsStraightLine ==
    (pc = "returned" /\ frac.num = frac.den /\ smoothed.kind = "curve") =>
        OnOneLine(smoothed.rows)

\* C9 as amended: with frac = 1.0 a curve of N rows is returned and every
\* local fit has the whole sample as its neighbourhood (k = N); the fits
\* stay local (tri-cube weighted), so the values need not lie on one line.
C9_FracOneUsesWholeSample ==
    (pc = "returned" /\ frac.num = frac.den) =>
        /\ smoothed.kind = "curve"
        /\ Len(smoothed.rows) = NPoints
        /\ \A p \in 1..Len(fits) :
              fits[p].left_end = 0 /\ fits[p].right_end = NPoints

C9_Witness ==
    /\ pc = "returned" /\ frac.num = frac.den /\ smoothed.kind = "curve"
    /\ NPoints = 3 /\ DistinctX(sample.x)
    /\ \A p \in 1..3 : fits[p].left_end = 0 /\ fits[p].right_end = 3
    /\ ~OnOneLine(smoothed.rows)

\* No point outside the neighbourhood of row p is nearer to its x than a
\* point inside it.
Nearest(p) ==
    LET xs == [q \in 1..Len(smoothed.rows) |-> smoothed.rows[q][1]]
        inside == (fits[p].left_end + 1)..fits[p].right_end
    IN \A j \in inside : \A o \in (1..Len(smoothed.rows)) \ inside :
          Abs(xs[j] - xs[p]) <= Abs(xs[o] - xs[p])

\* C10 as stated: every neighbourhood has ceil(frac * N) points (checked
\* where x has no repeated value, frac is in (0,1] and frac * N >= 2).
C10_NeighbourhoodIsCeil ==
    (pc = "returned" /\ smoothed.kind = "curve" /\ FracInUnit
        /\ DistinctX(sample.x) /\ frac.num * NPoints >= 2 * frac.den) =>
        \A p \in 1..Len(fits) :
            WindowSize(p) = (frac.num * NPoints + frac.den - 1) \div frac.den

\* C10 as amended: every neighbourhood has k points, k being frac * N
\* rounded down, raised to 2 if smaller and cut to N if larger; they are
\* the k points nearest to the evaluation point by x-distance; for main's
\* sample (N = 100) and frac = 0.2 every neighbourhood has 20 points.
C10_NeighbourhoodIsFloorNearest ==
    (pc = "returned" /\ smoothed.kind = "curve") =>
        LET k0 == (frac.num * NPoints) \div frac.den
            k1 == IF k0 < 2 THEN 2 ELSE k0
            k == IF k1 > NPoints THEN NPoints ELSE k1
        IN /\ Len(fits) = NPoints
           /\ \A p \in 1..Len(fits) : WindowSize(p) = k /\ Nearest(p)
           /\ (NPoints = 100 /\ frac.num * 5 = frac.den) =>
                 \A p \in 1..Len(fits) : WindowSize(p) = 20

C10_Witness ==
    /\ pc = "returned" /\ smoothed.kind = "curve" /\ FracInUnit
    /\ frac.num * NPoints > 2 * frac.den
    /\ (frac.num * NPoints) % frac.den # 0
    /\ DistinctX(sample.x)
    /\ \A p \in 1..Len(fits) :
          WindowSize(p) = (frac.num * NPoints) \div frac.den /\ Nearest(p)

=============================================================================
